---- MODULE Spec2Model ----
(***************************************************************************)
(* Model of src/python/tui/textualize/footer.py: the three footer          *)
(* components that pair a Footer widget with a status Label.               *)
(*                                                                         *)
(*   DynamicFooter      reactive `status` + watch_status (query_one/update)*)
(*   EnhancedFooter     plain attribute `status_text`, read once in compose*)
(*   NoScrollFooterApp  reactive `status`, no watcher, assigned in on_mount*)
(*                                                                         *)
(* Executing the file comes first (ImportModule).  Its class statements    *)
(* run in order; DynamicFooter and EnhancedFooter derive from Container,   *)
(* a name lines 1-4 do not import, so the statement at line 37 raises      *)
(* NameError unless the namespace the file is executed in already binds    *)
(* Container.  After a NameError only ContainerFooterApp has been defined  *)
(* and none of the three components can be constructed.                    *)
(*                                                                         *)
(* The behaviour of `reactive`, `query_one` and `Label.update` is that of  *)
(* the Textual toolkit the file is written against:                        *)
(*   - assigning a reactive stores the value and calls watch_<name> in the *)
(*     same call, but only when the value differs from the current one     *)
(*     (always_update defaults to False);                                  *)
(*   - reactive(...) has init=True: the first access of the attribute, a   *)
(*     read or an assignment, stores the default and calls watch_<name>    *)
(*     with it;                                                            *)
(*   - query_one raises NoMatches when no node matches the selector;       *)
(*   - Label.update replaces the label's content.                          *)
(***************************************************************************)
EXTENDS Naturals, Sequences, FiniteSets

VARIABLES
    env_names,      \* names bound beforehand in the namespace the file runs in
    module_state,   \* "unloaded", "loaded" or "NameError"
    defined,        \* the classes the file's execution has defined
    df_exists,      \* a DynamicFooter has been constructed
    df_status,      \* DynamicFooter.status (the reactive's stored value)
    df_init,        \* DynamicFooter: the reactive has been initialised
    df_children,    \* DynamicFooter: the widgets it has composed, in order
    df_mounted,     \* DynamicFooter: composition has happened
    df_op,          \* history: the last operation on the DynamicFooter
    df_prev,        \* history: the operation before df_op
    df_assigns,     \* history: number of assignments to DynamicFooter.status
    df_updates,     \* history: number of Label.update calls by watch_status
    df_composes,    \* history: number of times compose was run
    ef_exists,      \* an EnhancedFooter has been constructed
    ef_arg,         \* EnhancedFooter: the constructor's argument (or NoArg)
    ef_status_text, \* EnhancedFooter.status_text
    ef_children,    \* EnhancedFooter: the widgets it has composed
    ef_mounted,     \* EnhancedFooter: composition has happened
    ef_sets,        \* history: number of assignments to status_text
    ef_sets_before, \* history: how many of them came before composition
    app_status,     \* NoScrollFooterApp.status
    app_children,   \* NoScrollFooterApp: the widgets it has composed
    app_phase       \* NoScrollFooterApp: "absent", "constructed", "composed",
                    \* "mounted"

mod_vars == <<env_names, module_state, defined>>
df_vars == <<df_exists, df_status, df_init, df_children, df_mounted, df_op, df_prev,
             df_assigns, df_updates, df_composes>>
ef_vars == <<ef_exists, ef_arg, ef_status_text, ef_children, ef_mounted, ef_sets,
             ef_sets_before>>
app_vars == <<app_status, app_children, app_phase>>
vars == <<mod_vars, df_vars, ef_vars, app_vars>>

----------------------------------------------------------------------------
\* Bounds of the exploration.

\* Assignments to DynamicFooter.status explored in one run.
MaxAssign == 3

\* Assignments to EnhancedFooter.status_text explored in one run.
MaxSet == 1

----------------------------------------------------------------------------
\* Values.

\* The default of both reactives and of EnhancedFooter's status_text.
Ready == "Ready"

\* The value on_mount assigns.
Loaded == "Application loaded successfully"

\* The strings the owning application supplies.
Strings == {Ready, Loaded, ""}

\* The argument of EnhancedFooter(...): a string, or none given.
Arg(s) == [given |-> TRUE, value |-> s]
NoArg == [given |-> FALSE, value |-> ""]
Args == {NoArg} \cup {Arg(s) : s \in Strings}

\* The value of an attribute of a component that does not exist yet.
Absent == "<absent>"

\* What an operation raised.
NoError == "none"
NoMatches == "NoMatches"

----------------------------------------------------------------------------
\* Execution of the file.

Min(S) == CHOOSE x \in S : \A y \in S : x <= y

\* The names lines 1-4 import.
Imports ==
    {"App", "ComposeResult", "Footer", "Label", "Header", "Horizontal",
     "reactive"}

\* The class statements in file order (lines 6, 37, 51, 85) with the base
\* class each one names.
ClassStatements ==
    <<[name |-> "ContainerFooterApp", base |-> "App"],
      [name |-> "DynamicFooter", base |-> "Container"],
      [name |-> "EnhancedFooter", base |-> "Container"],
      [name |-> "NoScrollFooterApp", base |-> "App"]>>

\* The names bound when statement i runs, if all before it succeeded.
BoundAt(names, i) ==
    names \cup Imports \cup {ClassStatements[j].name : j \in 1..(i - 1)}

\* The class statements whose base class is not bound when they run.
Unresolved(names) ==
    {i \in DOMAIN ClassStatements :
        ClassStatements[i].base \notin BoundAt(names, i)}

\* Executing the file in a namespace binding `names`: the statements run
\* up to the first unresolved one, which raises NameError.
exec_module(names) ==
    IF Unresolved(names) = {}
    THEN [state |-> "loaded",
          classes |-> {ClassStatements[i].name : i \in DOMAIN ClassStatements}]
    ELSE [state |-> "NameError",
          classes |-> {ClassStatements[i].name :
                          i \in 1..(Min(Unresolved(names)) - 1)}]

ImportModule ==
    /\ module_state = "unloaded"
    /\ module_state' = exec_module(env_names).state
    /\ defined' = exec_module(env_names).classes
    /\ UNCHANGED env_names
    /\ UNCHANGED <<df_vars, ef_vars, app_vars>>

----------------------------------------------------------------------------
\* Widgets and the DOM queries the code uses.

Widget(type, id, classes, text) ==
    [type |-> type, id |-> id, classes |-> classes, text |-> text]

\* Footer(), Footer(id=...)
Footer(id) == Widget("Footer", id, "", "")

\* Header()
Header == Widget("Header", "", "", "")

\* Horizontal(id=...)
Horizontal(id) == Widget("Horizontal", id, "", "")

\* Label(text, id=..., classes=...)
Label(text, id, classes) == Widget("Label", id, classes, text)

\* The nodes of `children` that match "#id" and have the expected type.
Matches(children, id, type) ==
    {i \in DOMAIN children : children[i].id = id /\ children[i].type = type}

\* query_one("#id", type): the first match, 0 standing for NoMatches raised.
\* Faulty variant: takes the first node whatever its id and type.
query_one_first(children, id, type) ==
    IF children = <<>> THEN 0 ELSE 1

query_one(children, id, type) ==
    IF Matches(children, id, type) = {} THEN 0
    ELSE Min(Matches(children, id, type))

\* Label.update(text) on node i.
\* Faulty variant: appends to the content instead of replacing it.
update_append(children, i, text) ==
    [children EXCEPT ![i].text = @ \o text]

\* Faulty variant: rewrites every widget, not only node i.
update_all(children, i, text) ==
    [j \in DOMAIN children |-> [children[j] EXCEPT !.text = text]]

update(children, i, text) ==
    [children EXCEPT ![i].text = text]

\* The text of the Label with the given id, for observation.
HasLabel(children, id) == Matches(children, id, "Label") # {}
LabelText(children, id) == children[query_one(children, id, "Label")].text

----------------------------------------------------------------------------
\* DynamicFooter.

\* compose (lines 42-44), given the value self.status evaluates to.
DynamicFooter_compose(status) ==
    <<Footer(""), Label(status, "status", "")>>

\* watch_status (lines 46-49): outcome of one call.
WatchResult(children, raised, updates) ==
    [children |-> children, raised |-> raised, updates |-> updates]

\* Faulty variant: returns without looking up or updating the Label.
watch_status_skip(children, status) ==
    WatchResult(children, NoError, 0)

\* Faulty variant: makes the Label when the lookup finds none.
watch_status_create(children, status) ==
    IF query_one(children, "status", "Label") = 0
    THEN WatchResult(Append(children, Label(status, "status", "")), NoError, 1)
    ELSE WatchResult(update(children, query_one(children, "status", "Label"),
                            status), NoError, 1)

watch_status(children, status) ==
    LET status_label == query_one(children, "status", "Label")
    IN  IF status_label = 0
        THEN WatchResult(children, NoMatches, 0)
        ELSE WatchResult(update(children, status_label, status), NoError, 1)

\* Outcome of an access to the reactive: the stored value, whether it is
\* initialised, the widgets, what was raised, how many label updates ran.
Access(status, init, children, raised, updates) ==
    [status |-> status, init |-> init, children |-> children,
     raised |-> raised, updates |-> updates]

\* First access of the attribute (line 40, init=True): the default is stored
\* and watch_status is called with it.  Later accesses find it initialised.
status_initialize(status, init, children) ==
    IF init
    THEN Access(status, init, children, NoError, 0)
    ELSE LET w == watch_status(children, Ready)
         IN  Access(Ready, TRUE, w.children, w.raised, w.updates)

\* self.status read (line 44).
status_get(status, init, children) ==
    status_initialize(status, init, children)

\* self.status = value (line 40): initialise, then store and call the
\* watcher if the value differs from the current one.
\* Faulty variant: calls the watcher on every assignment (always_update).
status_set_always(status, init, children, value) ==
    LET i == status_initialize(status, init, children)
    IN  IF i.raised # NoError THEN i
        ELSE LET w == watch_status(i.children, value)
             IN  Access(value, i.init, w.children, w.raised,
                        i.updates + w.updates)

status_set(status, init, children, value) ==
    LET i == status_initialize(status, init, children)
    IN  IF i.raised # NoError THEN i
        ELSE IF value = i.status THEN i
        ELSE LET w == watch_status(i.children, value)
             IN  Access(value, i.init, w.children, w.raised,
                        i.updates + w.updates)

\* History record of an operation: its kind, the value assigned (or read),
\* the stored value and the mounted flag before it, and what it raised.
Op(kind, arg, old, mounted, raised) ==
    [kind |-> kind, arg |-> arg, old |-> old, mounted |-> mounted,
     raised |-> raised]

\* DynamicFooter() by the owning application: the reactive is at its
\* default, not yet initialised, and nothing is composed.
DfNew ==
    /\ "DynamicFooter" \in defined
    /\ ~df_exists
    /\ df_exists' = TRUE
    /\ df_status' = Ready
    /\ df_init' = FALSE
    /\ df_children' = <<>>
    /\ df_mounted' = FALSE
    /\ df_op' = Op("init", Ready, Ready, FALSE, NoError)
    /\ UNCHANGED <<df_prev, df_assigns, df_updates, df_composes>>
    /\ UNCHANGED <<mod_vars, ef_vars, app_vars>>

\* An assignment `footer.status = s` by the owning application.
DfAssign(s) ==
    /\ df_exists
    /\ df_assigns < MaxAssign
    /\ LET a == status_set(df_status, df_init, df_children, s)
       IN  /\ df_status' = a.status
           /\ df_init' = a.init
           /\ df_children' = a.children
           /\ df_updates' = df_updates + a.updates
           /\ df_op' = Op("assign", s, df_status, df_mounted, a.raised)
    /\ df_prev' = df_op
    /\ df_assigns' = df_assigns + 1
    /\ UNCHANGED <<df_exists, df_mounted, df_composes>>
    /\ UNCHANGED <<mod_vars, ef_vars, app_vars>>

\* Composition of the DynamicFooter by the framework: compose() reads
\* self.status at line 44; if that raises (the reactive was not initialised
\* yet, so watch_status runs and finds no Label), nothing is mounted.
\* Otherwise the yielded widgets become the children.
DfCompose ==
    /\ df_exists
    /\ ~df_mounted
    /\ df_composes = 0
    /\ LET g == status_get(df_status, df_init, df_children)
       IN  IF g.raised # NoError
           THEN /\ df_status' = g.status
                /\ df_init' = g.init
                /\ df_children' = g.children
                /\ df_mounted' = FALSE
                /\ df_updates' = df_updates + g.updates
                /\ df_op' = Op("compose", g.status, df_status, FALSE, g.raised)
           ELSE /\ df_status' = g.status
                /\ df_init' = g.init
                /\ df_children' = DynamicFooter_compose(g.status)
                /\ df_mounted' = TRUE
                /\ df_updates' = df_updates + g.updates
                /\ df_op' = Op("compose", g.status, df_status, FALSE, NoError)
    /\ df_prev' = df_op
    /\ df_composes' = df_composes + 1
    /\ UNCHANGED <<df_exists, df_assigns>>
    /\ UNCHANGED <<mod_vars, ef_vars, app_vars>>

----------------------------------------------------------------------------
\* EnhancedFooter.

\* __init__ (lines 77-79): the value status_text gets.
EnhancedFooter_init(arg) == IF arg.given THEN arg.value ELSE Ready

\* compose (lines 81-83), given self.status_text.
\* Faulty variant: the Label is built without the text.
EnhancedFooter_compose_blank(status_text) ==
    <<Footer(""), Label("", "", "status-section")>>

EnhancedFooter_compose(status_text) ==
    <<Footer(""), Label(status_text, "", "status-section")>>

\* `footer.status_text = s`: a plain attribute, nothing is notified.
\* Faulty variant: the assignment also rewrites the Label.
status_text_set_watched(children, s) ==
    [j \in DOMAIN children |->
        IF children[j].type = "Label" THEN [children[j] EXCEPT !.text = s]
        ELSE children[j]]

status_text_set(children, s) == children

\* EnhancedFooter(...) by the owning application.
EfNew(arg) ==
    /\ "EnhancedFooter" \in defined
    /\ ~ef_exists
    /\ ef_exists' = TRUE
    /\ ef_arg' = arg
    /\ ef_status_text' = EnhancedFooter_init(arg)
    /\ ef_children' = <<>>
    /\ ef_mounted' = FALSE
    /\ UNCHANGED <<ef_sets, ef_sets_before>>
    /\ UNCHANGED <<mod_vars, df_vars, app_vars>>

EfAssign(s) ==
    /\ ef_exists
    /\ ef_sets < MaxSet
    /\ ef_status_text' = s
    /\ ef_children' = status_text_set(ef_children, s)
    /\ ef_sets' = ef_sets + 1
    /\ ef_sets_before' = IF ef_mounted THEN ef_sets_before
                         ELSE ef_sets_before + 1
    /\ UNCHANGED <<ef_exists, ef_arg, ef_mounted>>
    /\ UNCHANGED <<mod_vars, df_vars, app_vars>>

EfCompose ==
    /\ ef_exists
    /\ ~ef_mounted
    /\ ef_children' = EnhancedFooter_compose(ef_status_text)
    /\ ef_mounted' = TRUE
    /\ UNCHANGED <<ef_exists, ef_arg, ef_status_text, ef_sets, ef_sets_before>>
    /\ UNCHANGED <<mod_vars, df_vars, app_vars>>

\* The text of EnhancedFooter's label (it has a class, not an id).
EfLabelText == ef_children[2].text

----------------------------------------------------------------------------
\* NoScrollFooterApp.

\* compose (lines 121-126), given the value self.status evaluates to.
NoScrollFooterApp_compose(status) ==
    <<Header, Horizontal("main-footer"), Footer("footer-keys"),
      Label(status, "footer-status", "")>>

\* self.status = value on the app (line 119): the class defines no
\* watch_status, so the value is stored and no widget is touched.
app_status_set(children, value) == children

\* app = NoScrollFooterApp() (line 132).
AppNew ==
    /\ "NoScrollFooterApp" \in defined
    /\ app_phase = "absent"
    /\ app_phase' = "constructed"
    /\ app_status' = Ready
    /\ app_children' = <<>>
    /\ UNCHANGED <<mod_vars, df_vars, ef_vars>>

\* app.run() (line 133): the framework composes the app.
AppCompose ==
    /\ app_phase = "constructed"
    /\ app_children' = NoScrollFooterApp_compose(app_status)
    /\ app_phase' = "composed"
    /\ UNCHANGED app_status
    /\ UNCHANGED <<mod_vars, df_vars, ef_vars>>

\* on_mount (lines 128-129).
on_mount ==
    /\ app_phase = "composed"
    /\ app_status' = Loaded
    /\ app_children' = app_status_set(app_children, Loaded)
    /\ app_phase' = "mounted"
    /\ UNCHANGED <<mod_vars, df_vars, ef_vars>>

----------------------------------------------------------------------------
\* Before the file is executed: no class is defined and no component
\* exists.  The namespace the file is executed in binds Container or, as
\* with a plain import of the file, does not.

Init ==
    /\ env_names \in {{}, {"Container"}}
    /\ module_state = "unloaded"
    /\ defined = {}
    /\ df_exists = FALSE
    /\ df_status = Absent
    /\ df_init = FALSE
    /\ df_children = <<>>
    /\ df_mounted = FALSE
    /\ df_op = Op("none", Absent, Absent, FALSE, NoError)
    /\ df_prev = Op("none", Absent, Absent, FALSE, NoError)
    /\ df_assigns = 0
    /\ df_updates = 0
    /\ df_composes = 0
    /\ ef_exists = FALSE
    /\ ef_arg = NoArg
    /\ ef_status_text = Absent
    /\ ef_children = <<>>
    /\ ef_mounted = FALSE
    /\ ef_sets = 0
    /\ ef_sets_before = 0
    /\ app_status = Absent
    /\ app_children = <<>>
    /\ app_phase = "absent"

Next ==
    \/ ImportModule
    \/ DfNew
    \/ \E arg \in Args : EfNew(arg)
    \/ AppNew
    \/ \E s \in Strings : DfAssign(s)
    \/ DfCompose
    \/ \E s \in Strings : EfAssign(s)
    \/ EfCompose
    \/ AppCompose
    \/ on_mount

Spec == Init /\ [][Next]_vars

----------------------------------------------------------------------------
\* Observations.

DfLabelText == LabelText(df_children, "status")
AppLabelText == LabelText(app_children, "footer-status")
DfAssignedMounted == df_op.kind = "assign" /\ df_op.mounted
DfAssignStep == df_assigns' = df_assigns + 1

----------------------------------------------------------------------------
\* Properties.

\* C1: whenever status has just been assigned s on a mounted DynamicFooter,
\* the "status" Label exists and its text is s.
C1_AssignedTextShown ==
    DfAssignedMounted =>
        /\ HasLabel(df_children, "status")
        /\ DfLabelText = df_op.arg
        /\ df_op.raised = NoError

C1_Witness ==
    /\ DfAssignedMounted
    /\ df_prev.kind = "compose"
    /\ df_op.arg = Loaded
    /\ df_op.old = Ready
    /\ DfLabelText = Loaded

\* C2: in NoScrollFooterApp the "footer-status" Label shows "Ready" after
\* composition and "Application loaded successfully" once on_mount has
\* assigned status.
C2_LoadedShown ==
    /\ app_phase = "composed" => AppLabelText = Ready
    /\ app_phase = "mounted" => AppLabelText = Loaded

\* C3: in every state of a mounted component the status Label's text equals
\* the most recently set status value.
C3_LabelTracksStatus ==
    /\ df_mounted => DfLabelText = df_status
    /\ app_phase \in {"composed", "mounted"} => AppLabelText = app_status

\* C4 as stated: an assignment to status before the component is mounted
\* raises nothing.
C4_PreMountSilent ==
    (df_op.kind = "assign" /\ ~df_op.mounted) => df_op.raised = NoError

\* C4 as amended: an assignment before mounting that changes the value
\* raises NoMatches, and after any assignment before mounting there is no
\* Label, hence no display text.
C4_PreMountRaises ==
    (df_op.kind = "assign" /\ ~df_op.mounted) =>
        /\ df_children = <<>>
        /\ ~HasLabel(df_children, "status")
        /\ df_op.arg # df_op.old => df_op.raised = NoMatches

C4_Witness ==
    /\ df_op.kind = "assign"
    /\ ~df_op.mounted
    /\ df_op.arg = Loaded
    /\ df_op.raised = NoMatches
    /\ ~df_mounted

\* C5 as stated: every assignment to status on a mounted component runs
\* exactly one update of the Label.
C5_EveryAssignUpdates ==
    [][(DfAssignStep /\ df_mounted) => df_updates' = df_updates + 1]_vars

\* C5 as amended: an assignment on a mounted component runs exactly one
\* update of the Label when the value differs from the current one, and
\* none when it is equal.
C5_ChangedAssignUpdates ==
    [][(DfAssignStep /\ df_mounted) =>
          df_updates' = df_updates
                        + (IF df_op'.arg # df_status THEN 1 ELSE 0)]_vars

C5_Witness ==
    /\ DfAssignedMounted
    /\ df_op.arg = df_op.old
    /\ df_prev.kind = "assign"
    /\ df_prev.mounted
    /\ df_prev.arg # df_prev.old
    /\ df_updates >= 1

\* C6: once compose has run and before any assignment, the status Label
\* exists and shows "Ready" (DynamicFooter's "status" Label,
\* NoScrollFooterApp's "footer-status" Label, and the label of an
\* EnhancedFooter built with no argument).
C6_DefaultShown ==
    /\ (df_composes = 1 /\ df_assigns = 0) =>
           (HasLabel(df_children, "status") /\ DfLabelText = Ready)
    /\ app_phase = "composed" =>
           (HasLabel(app_children, "footer-status") /\ AppLabelText = Ready)
    /\ (ef_mounted /\ ~ef_arg.given /\ ef_sets = 0) =>
           (Len(ef_children) = 2 /\ EfLabelText = Ready)

\* C7: assigning the value that was just assigned, on a mounted component,
\* changes nothing: the widgets and the stored value stay as the first
\* assignment left them and the Label's text is that value.
C7_Idempotent ==
    [][(DfAssignStep /\ df_mounted /\ DfAssignedMounted
            /\ df_op'.arg = df_op.arg) =>
          /\ df_children' = df_children
          /\ df_status' = df_status
          /\ LabelText(df_children', "status") = df_op'.arg]_vars

C7_Witness ==
    /\ DfAssignedMounted
    /\ df_prev.kind = "assign"
    /\ df_prev.mounted
    /\ df_prev.arg = df_op.arg
    /\ df_prev.arg # df_prev.old
    /\ DfLabelText = df_op.arg

C9_Frame ==
    [][/\ df_mounted =>
            /\ Len(df_children') = Len(df_children)
            /\ \A i \in DOMAIN df_children :
                  df_children'[i] # df_children[i] =>
                     /\ df_children[i].type = "Label"
                     /\ df_children[i].id = "status"
                     /\ df_children'[i] =
                           [df_children[i] EXCEPT !.text = df_op'.arg]
       /\ DfAssignStep =>
            (ef_children' = ef_children /\ app_children' = app_children)
       /\ (df_exists /\ df_status' # df_status) =>
            (DfAssignStep /\ df_status' = df_op'.arg)]_vars

C9_Witness ==
    /\ DfAssignedMounted
    /\ df_op.arg # df_op.old
    /\ df_op.raised = NoError
    /\ df_children[1] = Footer("")
    /\ DfLabelText = df_op.arg
    /\ ef_mounted
    /\ app_phase = "mounted"

\* C10: EnhancedFooter's label shows status_text as read at composition
\* (the constructor's argument, "Ready" when none was given, unless it was
\* reassigned before composition), and an assignment to status_text after
\* composition leaves the label unchanged.
C10_ComposedOnce ==
    /\ [](ef_mounted =>
            /\ Len(ef_children) = 2
            /\ ef_sets_before = 0 =>
                 EfLabelText = (IF ef_arg.given THEN ef_arg.value ELSE Ready))
    /\ [][ef_mounted => ef_children' = ef_children]_vars

C10_Witness ==
    /\ ef_mounted
    /\ ef_sets = 1
    /\ ef_sets_before = 0
    /\ ef_status_text # EfLabelText
    /\ EfLabelText = Ready

====
